---- MODULE Spec2Model ----
(***************************************************************************)
(* Model of labeling_tool.py: the polygon editor kept by ImageLabel        *)
(* (polygons, current_polygon, mouse_position, the displayed pixmap) and   *)
(* the navigation and export handlers of SegmentationTool.                 *)
(*                                                                         *)
(* Python values are represented as follows.                               *)
(*   None                <<>>   (pixmap, mouse_position, current path)     *)
(*   a point (x, y)      <<x, y>>                                          *)
(*   a pixmap            <<width, height>>                                 *)
(*   a file path         <<directory, stem, extension>>                    *)
(*   {"points": [...]}   the sequence of points                            *)
(*   a list index i      i (0-based, as in the code); element i of a list  *)
(*                       is element i + 1 of the sequence                  *)
(***************************************************************************)
EXTENDS Integers, Sequences, FiniteSets, TLC

\* Bounds of the model (the code has no such limits).
MaxPoints == 6     \* most points held by the editor, finalized or not

VARIABLES
    image_files,            \* SegmentationTool.image_files
    current_image_index,    \* SegmentationTool.current_image_index
    current_image_path,     \* SegmentationTool.current_image_path
    pixmap,                 \* ImageLabel.pixmap(): <<>> or <<width, height>>
    polygons,               \* ImageLabel.polygons
    current_polygon,        \* ImageLabel.current_polygon
    mouse_position,         \* ImageLabel.mouse_position
    btn_next_enabled,       \* btn_next.isEnabled()
    btn_save_mask_enabled,  \* btn_save_mask.isEnabled()
    msgbox,                 \* history: the QMessageBox the last handler showed
    written,                \* history: the files the last handler wrote
    sincePathSet            \* history: per polygon, finalized after the last
                            \* assignment of current_image_path

vars == <<image_files, current_image_index, current_image_path, pixmap,
          polygons, current_polygon, mouse_position, btn_next_enabled,
          btn_save_mask_enabled, msgbox, written, sincePathSet>>

None == <<>>

----------------------------------------------------------------------------
\* The environment: the folders the dialog can return and what imread and
\* resize make of each file.

\* The sizes of the images of the folder "sizes": every width of
\* SampleWidths with every height of SampleHeights.
SampleWidths == <<1, 149, 1920, 1921, 2560, 3840, 4000>>
SampleHeights == <<1, 5, 1080, 1081, 1341, 2140, 3000>>
SampleSizes ==
    [i \in 1 .. Len(SampleWidths) * Len(SampleHeights) |->
        <<SampleWidths[((i - 1) \div Len(SampleHeights)) + 1],
          SampleHeights[((i - 1) % Len(SampleHeights)) + 1]>>]

\* Listing of a folder after the filter of load_images (files ending in
\* .jpg, .jpeg or .png), in the order os.listdir returns them.  The files
\* of "sizes" are named by their number.
Listing(folder) ==
    CASE folder = "d1" -> << <<"d1", "a", ".png">>, <<"d1", "bad", ".jpg">>,
                             <<"d1", "b", ".jpg">>, <<"d1", "thin", ".png">> >>
      [] folder = "d2" -> << <<"d2", "bad", ".png">>, <<"d2", "a", ".jpg">> >>
      [] folder = "grid" -> << <<"grid", "g", ".png">> >>
      [] folder = "sizes" -> [i \in 1 .. Len(SampleSizes) |->
                                 <<"sizes", i, ".png">>]
      [] OTHER -> << >>

\* "" is the dialog being cancelled; d3 holds no image file.
Folders == {"", "d1", "d2", "d3"}

\* cv2.imread: the <<width, height>> of the decoded image, None when the
\* file cannot be decoded.
Imread(file_path) ==
    IF file_path[1] = "sizes" THEN SampleSizes[file_path[2]]
    ELSE CASE file_path = <<"d1", "a", ".png">> -> <<2, 1>>
           [] file_path = <<"d1", "b", ".jpg">> -> <<1, 1>>
           [] file_path = <<"d2", "a", ".jpg">> -> <<1, 1>>
           [] file_path = <<"d1", "thin", ".png">> -> <<1, 3000>>
           [] file_path = <<"grid", "g", ".png">> -> <<10, 10>>
           [] OTHER -> None

screen_width == 1920
screen_height == 1080

----------------------------------------------------------------------------
\* Double-precision arithmetic of load_image, on sequences of bits (most
\* significant bit first).

\* The bits of a natural number, without leading zeros.
RECURSIVE BitsOf(_)
BitsOf(n) == IF n = 0 THEN << >> ELSE Append(BitsOf(n \div 2), n % 2)

\* The natural number of a sequence of bits.
RECURSIVE NatOf(_)
NatOf(bits) ==
    IF bits = << >> THEN 0
    ELSE 2 * NatOf(SubSeq(bits, 1, Len(bits) - 1)) + bits[Len(bits)]

\* bits + 1.
RECURSIVE Increment(_)
Increment(bits) ==
    IF bits = << >> THEN <<1>>
    ELSE IF bits[Len(bits)] = 0
         THEN Append(SubSeq(bits, 1, Len(bits) - 1), 1)
         ELSE Append(Increment(SubSeq(bits, 1, Len(bits) - 1)), 0)

\* The n lowest bits of a natural number.
FixedBits(v, n) == [i \in 1 .. n |-> (v \div 2^(n - i)) % 2]

\* The bits handled in one step of the operators below: at most 16.
ChunkOf(n) == IF n < 16 THEN n ELSE 16

\* bits * n for a natural number n < 2^14, taken 16 bits at a time from
\* the low end; carry is what the lower bits carry over.
RECURSIVE TimesNat(_, _, _)
TimesNat(bits, n, carry) ==
    IF bits = << >> THEN BitsOf(carry)
    ELSE LET c == ChunkOf(Len(bits))
             t == NatOf(SubSeq(bits, Len(bits) - c + 1, Len(bits))) * n
                    + carry
         IN  TimesNat(SubSeq(bits, 1, Len(bits) - c), n, t \div 2^c)
                 \o FixedBits(t % 2^c, c)

\* The first n bits of the binary fraction r / b (0 <= r < b < 2^14), taken
\* Chunk bits at a time.
RECURSIVE FractionBits(_, _, _)
FractionBits(r, b, n) ==
    IF n = 0 THEN << >>
    ELSE LET c == ChunkOf(n)
         IN  FixedBits((r * 2^c) \div b, c)
                 \o FractionBits((r * 2^c) % b, b, n - c)

\* What is left of r / b after its first n bits.
RECURSIVE FractionRest(_, _, _)
FractionRest(r, b, n) ==
    IF n = 0 THEN r
    ELSE LET c == ChunkOf(n)
         IN  FractionRest((r * 2^c) % b, b, n - c)

\* The position of the first 1 among the bits of r / b (0 < r < b).
RECURSIVE FirstOne(_, _)
FirstOne(r, b) == IF 2 * r >= b THEN 1 ELSE 1 + FirstOne(2 * r, b)

\* The bits of a double's significand.
Precision == 53

\* Round to nearest, ties to even: bits is followed by the bit guard and
\* by further bits that are all zero iff ~sticky.  The result has one bit
\* more than bits when the rounding carries out of the top bit.
RoundNearestEven(bits, guard, sticky) ==
    IF guard = 1 /\ (sticky \/ bits[Len(bits)] = 1)
    THEN Increment(bits)
    ELSE bits

\* The double a / b for naturals 0 < a < b: [bits, drop] stands for the
\* value NatOf(bits) / 2^drop.
Quotient(a, b) ==
    LET k == FirstOne(a, b)
        all == FractionBits(a, b, k + Precision)
    IN  [bits |-> RoundNearestEven(SubSeq(all, k, k + Precision - 1),
                                   all[k + Precision],
                                   FractionRest(a, b, k + Precision) # 0),
         drop |-> k + Precision - 1]

\* int(n * d) for a natural n >= 1 and a double d = [bits, drop]: the
\* product is rounded to a double and then cut to its integer part.
IntOfProduct(n, d) ==
    LET p == TimesNat(d.bits, n, 0)
        extra == IF Len(p) > Precision THEN Len(p) - Precision ELSE 0
        kept == SubSeq(p, 1, Len(p) - extra)
        rounded == IF extra = 0 THEN p
                   ELSE RoundNearestEven(
                            kept, p[Len(kept) + 1],
                            \E i \in Len(kept) + 2 .. Len(p) : p[i] = 1)
        shift == d.drop - extra
    IN  IF shift >= Len(rounded) THEN 0
        ELSE NatOf(SubSeq(rounded, 1, Len(rounded) - shift))

\* <<new_width, new_height>> of load_image: int(side * scale_factor) with
\* scale_factor = min(screen_width / width, screen_height / height, 1.0).
\* The scale is 1.0 when neither ratio is below 1, and the double of the
\* smaller ratio otherwise (division rounds monotonically, so the smaller
\* ratio gives the smaller double).
ScaledSize(width, height) ==
    IF width <= screen_width /\ height <= screen_height
    THEN <<width, height>>
    ELSE LET scale_factor ==
                 IF screen_width * height <= screen_height * width
                 THEN Quotient(screen_width, width)
                 ELSE Quotient(screen_height, height)
         IN  <<IntOfProduct(width, scale_factor),
               IntOfProduct(height, scale_factor)>>

\* cv2.resize raises when the requested size has a zero side.
ResizeRaises(size) == size[1] = 0 \/ size[2] = 0

----------------------------------------------------------------------------
Init ==
    /\ image_files = << >>
    /\ current_image_index = 0
    /\ current_image_path = None
    /\ pixmap = None
    /\ polygons = << >>
    /\ current_polygon = << >>
    /\ mouse_position = None
    /\ btn_next_enabled = FALSE
    /\ btn_save_mask_enabled = FALSE
    /\ msgbox = ""
    /\ written = << >>
    /\ sincePathSet = << >>

\* The bounds test with the far edges let in (<= for <).
InPixmapInclusive(x, y) ==
    /\ 0 <= x /\ x <= pixmap[1]
    /\ 0 <= y /\ y <= pixmap[2]

\* The bounds test of mousePressEvent and mouseMoveEvent.
InPixmap(x, y) ==
    /\ 0 <= x /\ x < pixmap[1]
    /\ 0 <= y /\ y < pixmap[2]

\* The number of points in a list of polygons.
RECURSIVE PointCount(_)
PointCount(polys) ==
    IF polys = << >> THEN 0
    ELSE Len(polys[1]) + PointCount(Tail(polys))

\* The positions the mouse events report: the points of a 2 x 1 image and
\* one position beyond each edge of a 1 x 1 image.
Positions == {<<0, 0>>, <<1, 0>>, <<-1, 0>>, <<0, -1>>, <<0, 1>>}
Buttons == {"LeftButton", "RightButton"}

mousePressEvent(button, x, y) ==
    /\ IF pixmap # None /\ button = "LeftButton" /\ InPixmap(x, y)
       THEN /\ Len(current_polygon) + PointCount(polygons) < MaxPoints
            /\ current_polygon' = Append(current_polygon, <<x, y>>)
       ELSE current_polygon' = current_polygon
    /\ msgbox' = ""
    /\ written' = << >>
    /\ UNCHANGED <<image_files, current_image_index, current_image_path,
                   pixmap, polygons, mouse_position, btn_next_enabled,
                   btn_save_mask_enabled, sincePathSet>>

mouseMoveEvent(x, y) ==
    /\ IF pixmap # None /\ InPixmap(x, y)
       THEN mouse_position' = <<x, y>>
       ELSE mouse_position' = mouse_position
    /\ msgbox' = ""
    /\ written' = << >>
    /\ UNCHANGED <<image_files, current_image_index, current_image_path,
                   pixmap, polygons, current_polygon, btn_next_enabled,
                   btn_save_mask_enabled, sincePathSet>>

\* setImage without the reset of the finalized polygons.
setImageKeepPolygons(size) ==
    /\ pixmap' = size
    /\ polygons' = polygons
    /\ current_polygon' = << >>
    /\ mouse_position' = None

\* setImage without the reset of the in-progress points.
setImageKeepCurrent(size) ==
    /\ pixmap' = size
    /\ polygons' = << >>
    /\ current_polygon' = current_polygon
    /\ mouse_position' = None

\* ImageLabel.setImage: show the image and reset the editor.
\* setImage without the reset of the hover position.
setImageKeepHover(size) ==
    /\ pixmap' = size
    /\ polygons' = << >>
    /\ current_polygon' = << >>
    /\ mouse_position' = mouse_position

setImage(size) ==
    /\ pixmap' = size
    /\ polygons' = << >>
    /\ current_polygon' = << >>
    /\ mouse_position' = None

\* The three ways load_image ends.
LoadOutcome(file_path) ==
    IF Imread(file_path) = None THEN "undecodable"
    ELSE IF ResizeRaises(ScaledSize(Imread(file_path)[1],
                                    Imread(file_path)[2]))
         THEN "raised"
         ELSE "shown"

\* load_image with the path assigned only after the decode test.
load_image_path_late(file_path) ==
    /\ current_image_path' = IF LoadOutcome(file_path) = "undecodable"
                             THEN current_image_path ELSE file_path
    /\ IF LoadOutcome(file_path) = "shown"
       THEN /\ setImage(ScaledSize(Imread(file_path)[1], Imread(file_path)[2]))
            /\ sincePathSet' = << >>
            /\ msgbox' = ""
       ELSE /\ UNCHANGED <<pixmap, polygons, current_polygon, mouse_position>>
            /\ sincePathSet' = [i \in 1 .. Len(polygons) |-> FALSE]
            /\ msgbox' = IF LoadOutcome(file_path) = "undecodable"
                         THEN "warning:decode" ELSE ""

\* SegmentationTool.load_image.  The path is assigned first; an undecodable
\* file is reported and the handler returns.  An exception of cv2.resize
\* ends the handler at line 187, without a message box; where Qt then
\* aborts the process there is no later state, and where it goes on the
\* state is the one given here.
load_image(file_path) ==
    /\ current_image_path' = file_path
    /\ IF LoadOutcome(file_path) = "shown"
       THEN /\ setImage(ScaledSize(Imread(file_path)[1], Imread(file_path)[2]))
            /\ sincePathSet' = << >>
            /\ msgbox' = ""
       ELSE /\ UNCHANGED <<pixmap, polygons, current_polygon, mouse_position>>
            /\ sincePathSet' = [i \in 1 .. Len(polygons) |-> FALSE]
            /\ msgbox' = IF LoadOutcome(file_path) = "undecodable"
                         THEN "warning:decode" ELSE ""

load_images(folder_path) ==
    /\ written' = << >>
    /\ IF folder_path = ""
       THEN /\ msgbox' = ""
            /\ UNCHANGED <<image_files, current_image_index,
                           current_image_path, pixmap, polygons,
                           current_polygon, mouse_position,
                           btn_next_enabled, btn_save_mask_enabled,
                           sincePathSet>>
       ELSE /\ image_files' = Listing(folder_path)
            /\ IF Listing(folder_path) # << >>
               THEN /\ current_image_index' = 0
                    /\ load_image(Listing(folder_path)[1])
                    /\ IF LoadOutcome(Listing(folder_path)[1]) = "raised"
                       THEN UNCHANGED <<btn_next_enabled,
                                        btn_save_mask_enabled>>
                       ELSE /\ btn_next_enabled' = TRUE
                            /\ btn_save_mask_enabled' = TRUE
               ELSE /\ msgbox' = "warning:no_images"
                    /\ UNCHANGED <<current_image_index,
                                   current_image_path, pixmap, polygons,
                                   current_polygon, mouse_position,
                                   btn_next_enabled,
                                   btn_save_mask_enabled, sincePathSet>>

load_next_image ==
    /\ btn_next_enabled
    /\ written' = << >>
    /\ IF current_image_index + 1 < Len(image_files)
       THEN /\ current_image_index' = current_image_index + 1
            /\ load_image(image_files[current_image_index + 2])
       ELSE /\ msgbox' = "info:done"
            /\ UNCHANGED <<current_image_index, current_image_path, pixmap,
                           polygons, current_polygon, mouse_position,
                           sincePathSet>>
    /\ UNCHANGED <<image_files, btn_next_enabled, btn_save_mask_enabled>>

\* pop(0) for pop(): the list without its first element.
PopFront(list) == SubSeq(list, 2, Len(list))

\* list.pop(): the list without its last element.
Pop(list) == SubSeq(list, 1, Len(list) - 1)

\* "if list: list.pop()" of the two undo handlers.
PopIfAny(list) == IF list # << >> THEN Pop(list) ELSE list

\* undo_last_point that, finding no in-progress point, takes the last point
\* of the last finalized polygon.
undo_last_point_reaching ==
    /\ IF current_polygon # << >>
       THEN /\ current_polygon' = Pop(current_polygon)
            /\ polygons' = polygons
       ELSE /\ current_polygon' = current_polygon
            /\ polygons' = IF polygons # << >>
                           THEN [polygons EXCEPT ![Len(polygons)] = Pop(@)]
                           ELSE polygons
    /\ msgbox' = ""
    /\ written' = << >>
    /\ UNCHANGED <<image_files, current_image_index, current_image_path,
                   pixmap, mouse_position, btn_next_enabled,
                   btn_save_mask_enabled, sincePathSet>>

undo_last_point ==
    /\ current_polygon' = PopIfAny(current_polygon)
    /\ msgbox' = ""
    /\ written' = << >>
    /\ UNCHANGED <<image_files, current_image_index, current_image_path,
                   pixmap, polygons, mouse_position, btn_next_enabled,
                   btn_save_mask_enabled, sincePathSet>>

undo_last_polygon ==
    /\ polygons' = PopIfAny(polygons)
    /\ sincePathSet' = SubSeq(sincePathSet, 1, Len(polygons'))
    /\ msgbox' = ""
    /\ written' = << >>
    /\ UNCHANGED <<image_files, current_image_index, current_image_path,
                   pixmap, current_polygon, mouse_position, btn_next_enabled,
                   btn_save_mask_enabled>>

\* The test with a threshold one too low.
TooFewPointsBelowTwo(points) == Len(points) < 2

\* The test of finalize_polygon: fewer than 3 points.
TooFewPoints(points) == Len(points) < 3

\* The stored list when it is the in-progress list itself: the clear() that
\* follows empties it.
PolygonDataAliased(points) == << >>

\* {"points": current_polygon.copy()}
PolygonData(points) == points

finalize_polygon ==
    /\ IF TooFewPoints(current_polygon)
       THEN /\ msgbox' = "warning:polygon"
            /\ UNCHANGED <<polygons, current_polygon, sincePathSet>>
       ELSE /\ polygons' = Append(polygons, PolygonData(current_polygon))
            /\ current_polygon' = << >>
            /\ sincePathSet' = Append(sincePathSet, TRUE)
            /\ msgbox' = ""
    /\ written' = << >>
    /\ UNCHANGED <<image_files, current_image_index, current_image_path,
                   pixmap, mouse_position, btn_next_enabled,
                   btn_save_mask_enabled>>

\* np.zeros((mask_width, mask_height)): the two sizes exchanged.
ZeroMaskTransposed(mask_width, mask_height) ==
    [row \in 1 .. mask_width |-> [col \in 1 .. mask_height |-> 0]]

\* np.zeros((mask_height, mask_width)): mask_height rows of mask_width
\* pixels, the pixel (x, y) being mask[y + 1][x + 1].
ZeroMask(mask_width, mask_height) ==
    [row \in 1 .. mask_height |-> [col \in 1 .. mask_width |-> 0]]

\* The point (x, y) lies on the segment from a to b.
OnSegment(a, b, x, y) ==
    /\ (b[1] - a[1]) * (y - a[2]) = (b[2] - a[2]) * (x - a[1])
    /\ (a[1] <= x /\ x <= b[1]) \/ (b[1] <= x /\ x <= a[1])
    /\ (a[2] <= y /\ y <= b[2]) \/ (b[2] <= y /\ y <= a[2])

\* The ray from (x, y) towards larger x crosses the segment from a to b.
RayCrosses(a, b, x, y) ==
    /\ (a[2] > y) # (b[2] > y)
    /\ IF b[2] > a[2]
       THEN (x - a[1]) * (b[2] - a[2]) < (y - a[2]) * (b[1] - a[1])
       ELSE (x - a[1]) * (b[2] - a[2]) > (y - a[2]) * (b[1] - a[1])

\* The vertex after the i-th one of a closed contour.
NextVertex(points, i) == points[(i % Len(points)) + 1]

\* The pixels cv2.fillPoly paints for one contour without the pixels of
\* its edges: those strictly inside.
CoveredInside(points, x, y) ==
    /\ \A i \in 1 .. Len(points) :
           ~ OnSegment(points[i], NextVertex(points, i), x, y)
    /\ Cardinality({i \in 1 .. Len(points) :
           RayCrosses(points[i], NextVertex(points, i), x, y)}) % 2 = 1

\* The pixels cv2.fillPoly paints for one contour: those of its edges and
\* those inside it.  For horizontal, vertical and diagonal edges (the
\* ones used here) the pixels of an edge are the points of its segment.
Covered(points, x, y) ==
    \/ \E i \in 1 .. Len(points) :
           OnSegment(points[i], NextVertex(points, i), x, y)
    \/ Cardinality({i \in 1 .. Len(points) :
           RayCrosses(points[i], NextVertex(points, i), x, y)}) % 2 = 1

\* A fill that inverts the pixels it covers instead of setting them.
FillPolyInverting(mask, points, color) ==
    [row \in 1 .. Len(mask) |-> [col \in 1 .. Len(mask[row]) |->
        IF Covered(points, col - 1, row - 1)
        THEN color - mask[row][col] ELSE mask[row][col]]]

\* cv2.fillPoly(mask, [points], color).
FillPoly(mask, points, color) ==
    [row \in 1 .. Len(mask) |-> [col \in 1 .. Len(mask[row]) |->
        IF Covered(points, col - 1, row - 1)
        THEN color ELSE mask[row][col]]]

\* The loop of save_mask: one cv2.fillPoly call for each polygon, in the
\* order of the list.
RECURSIVE FillAll(_, _)
FillAll(mask, polys) ==
    IF polys = << >> THEN mask
    ELSE FillPoly(FillAll(mask, SubSeq(polys, 1, Len(polys) - 1)),
                  polys[Len(polys)], 255)

\* os.path.splitext(os.path.basename(path))[0] + "_mask.png"
MaskFilename(file_path) == <<file_path[2], "_mask.png">>

\* save_mask without the test for an empty polygon list.
save_mask_unchecked ==
    /\ btn_save_mask_enabled
    /\ IF current_image_path = None
       THEN /\ msgbox' = "warning:no_image"
            /\ written' = << >>
       ELSE IF pixmap = None
            THEN /\ msgbox' = "warning:no_pixmap"
                 /\ written' = << >>
            ELSE /\ written' = << [name |-> MaskFilename(current_image_path),
                                   width |-> pixmap[1],
                                   height |-> pixmap[2],
                                   filled |-> polygons,
                                   mask |-> FillAll(
                                       ZeroMask(pixmap[1], pixmap[2]),
                                       polygons)] >>
                 /\ msgbox' = "info:saved"
    /\ UNCHANGED <<image_files, current_image_index, current_image_path,
                   pixmap, polygons, current_polygon, mouse_position,
                   btn_next_enabled, btn_save_mask_enabled, sincePathSet>>

\* The polygons save_mask fills, with the in-progress points as one more.
poly_data_with_current ==
    IF current_polygon = << >> THEN polygons
    ELSE Append(polygons, current_polygon)

\* The polygons save_mask fills: for poly_data in self.image_label.polygons.
poly_data == polygons

\* SegmentationTool.save_mask.  written records the file name, the size of
\* the mask, the polygons filled into it and the pixels of the mask.
save_mask ==
    /\ btn_save_mask_enabled
    /\ IF current_image_path = None
       THEN /\ msgbox' = "warning:no_image"
            /\ written' = << >>
       ELSE IF polygons = << >>
            THEN /\ msgbox' = "warning:no_polygons"
                 /\ written' = << >>
            ELSE IF pixmap = None
                 THEN /\ msgbox' = "warning:no_pixmap"
                      /\ written' = << >>
                 ELSE /\ written' = << [name |-> MaskFilename(current_image_path),
                                        width |-> pixmap[1],
                                        height |-> pixmap[2],
                                        filled |-> poly_data,
                                        mask |-> FillAll(
                                            ZeroMask(pixmap[1], pixmap[2]),
                                            poly_data)] >>
                      /\ msgbox' = "info:saved"
    /\ UNCHANGED <<image_files, current_image_index, current_image_path,
                   pixmap, polygons, current_polygon, mouse_position,
                   btn_next_enabled, btn_save_mask_enabled, sincePathSet>>

Next ==
    \/ \E button \in Buttons, pos \in Positions :
           mousePressEvent(button, pos[1], pos[2])
    \/ \E pos \in Positions : mouseMoveEvent(pos[1], pos[2])
    \/ \E folder_path \in Folders : load_images(folder_path)
    \/ load_next_image
    \/ undo_last_point
    \/ undo_last_polygon
    \/ finalize_polygon
    \/ save_mask

Spec == Init /\ [][Next]_vars
----------------------------------------------------------------------------
\* The state of the editor and of the navigation, without the history
\* variables.
editor == <<pixmap, polygons, current_polygon, mouse_position>>
navigation == <<image_files, current_image_index, current_image_path>>

\* Every point of the list lies inside a width x height image.
AllInside(points, width, height) ==
    \A i \in 1 .. Len(points) :
        /\ 0 <= points[i][1] /\ points[i][1] < width
        /\ 0 <= points[i][2] /\ points[i][2] < height

\* C1: finalize_polygon called with 0, 1 or 2 in-progress points shows the
\* insufficient-points warning and changes neither the finalized polygons
\* nor the in-progress points, nor anything else of the editor.
C1_FinalizeTooFew ==
    [][(finalize_polygon /\ Len(current_polygon) < 3)
        => /\ msgbox' = "warning:polygon"
           /\ polygons' = polygons
           /\ current_polygon' = current_polygon
           /\ UNCHANGED <<editor, navigation>>]_vars

\* C1 witness: the warning has been shown for two in-progress points while
\* a finalized polygon exists.
C1_Witness ==
    /\ msgbox = "warning:polygon"
    /\ Len(current_polygon) = 2
    /\ polygons # << >>

\* C2: finalize_polygon called with 3 or more in-progress points appends
\* exactly one polygon at the end of the list, whose points are the
\* in-progress points in the same order; the earlier polygons keep their
\* positions and contents; the in-progress sequence is empty afterwards.
C2_FinalizeAppends ==
    [][(finalize_polygon /\ Len(current_polygon) >= 3)
        => /\ Len(polygons') = Len(polygons) + 1
           /\ polygons'[Len(polygons')] = current_polygon
           /\ \A i \in 1 .. Len(polygons) : polygons'[i] = polygons[i]
           /\ current_polygon' = << >>]_vars

\* C2 witness: a second polygon, of distinct points and different from the
\* first, has been appended and the in-progress sequence is empty.
C2_Witness ==
    /\ Len(polygons) = 2
    /\ polygons[2] = << <<1, 0>>, <<0, 0>>, <<1, 0>> >>
    /\ polygons[1] # polygons[2]
    /\ current_polygon = << >>
    /\ msgbox = ""

\* C3: in every reachable state every finalized polygon has at least 3
\* points.
C3_PolygonsHaveThreePoints ==
    \A i \in 1 .. Len(polygons) : Len(polygons[i]) >= 3

\* C3 witness: two polygons have been finalized, each of exactly 3 points.
C3_Witness ==
    /\ Len(polygons) = 2
    /\ Len(polygons[1]) = 3
    /\ Len(polygons[2]) = 3
    /\ current_polygon = << >>

\* C4: in every reachable state every in-progress point and every point of
\* every finalized polygon lies inside the displayed image (and there is no
\* point while no image is displayed).
C4_PointsInsideDisplayedImage ==
    IF pixmap = None
    THEN current_polygon = << >> /\ polygons = << >>
    ELSE /\ AllInside(current_polygon, pixmap[1], pixmap[2])
         /\ \A i \in 1 .. Len(polygons) :
                AllInside(polygons[i], pixmap[1], pixmap[2])

\* C4 witness: a load failed to decode while the editor held a finalized
\* polygon and in-progress points on the far column of the image.
C4_Witness ==
    /\ msgbox = "warning:decode"
    /\ polygons # << >>
    /\ current_polygon = << <<1, 0>> >>
    /\ pixmap = <<2, 1>>

\* C5: a click outside the displayed image, or with no image displayed,
\* changes nothing; a left click inside the image appends exactly its
\* (x, y) to the in-progress sequence; the finalized polygons stay as they
\* are in both cases.
C5_Click ==
    [][\A button \in Buttons, pos \in Positions :
        mousePressEvent(button, pos[1], pos[2])
        => /\ polygons' = polygons
           /\ IF pixmap = None
              THEN UNCHANGED <<editor, navigation>>
              ELSE IF ~(/\ 0 <= pos[1] /\ pos[1] < pixmap[1]
                        /\ 0 <= pos[2] /\ pos[2] < pixmap[2])
                   THEN UNCHANGED <<editor, navigation>>
                   ELSE button = "LeftButton"
                        => current_polygon' = Append(current_polygon, pos)]_vars

\* C5 witness: a click has put (1, 0) behind (0, 0) while a finalized
\* polygon exists.
C5_Witness ==
    /\ current_polygon = << <<0, 0>>, <<1, 0>> >>
    /\ polygons # << >>
    /\ msgbox = ""

\* k calls of an undo handler on a list: "if list: list.pop()" k times.
RECURSIVE PopTimes(_, _)
PopTimes(list, k) == IF k = 0 THEN list ELSE PopTimes(PopIfAny(list), k - 1)

\* The first n elements of a list.
FirstN(list, n) == SubSeq(list, 1, n)

\* C6: undo_last_point removes exactly the last in-progress point (so k
\* calls on n >= k points leave the first n - k points in their order), does
\* nothing when there is no in-progress point, and never changes the
\* finalized polygons, not even the one just finalized.
C6_UndoPoint ==
    [][undo_last_point
        => /\ polygons' = polygons
           /\ IF current_polygon = << >>
              THEN current_polygon' = << >>
              ELSE current_polygon'
                     = FirstN(current_polygon, Len(current_polygon) - 1)
           /\ \A k \in 0 .. Len(current_polygon) :
                  PopTimes(current_polygon, k)
                    = FirstN(current_polygon, Len(current_polygon) - k)]_vars

\* C6 witness: right after a finalize (no in-progress point, a polygon in
\* the list), undo_last_point can be called.
C6_Witness ==
    /\ current_polygon = << >>
    /\ Len(polygons) = 1
    /\ msgbox = ""
    /\ sincePathSet = <<TRUE>>
    /\ ENABLED undo_last_point

\* C7: undo_last_polygon removes exactly the last finalized polygon, whole
\* (so k calls on n >= k polygons leave the first n - k polygons as they
\* were), does nothing when the list is empty, and never changes the
\* in-progress points.
C7_UndoPolygon ==
    [][undo_last_polygon
        => /\ current_polygon' = current_polygon
           /\ IF polygons = << >>
              THEN polygons' = << >>
              ELSE polygons' = FirstN(polygons, Len(polygons) - 1)
           /\ \A k \in 0 .. Len(polygons) :
                  PopTimes(polygons, k) = FirstN(polygons, Len(polygons) - k)]_vars

\* C7 witness: undo_last_polygon can be called on a finalized polygon while
\* three points are in progress.
C7_Witness ==
    /\ Len(polygons) = 1
    /\ Len(current_polygon) = 3
    /\ ENABLED undo_last_polygon

\* A step in which load_image is called: load-folder on a folder with image
\* files, or next-image before the end of the list.
CallsLoadImage ==
    \/ \E folder_path \in Folders :
           Listing(folder_path) # << >> /\ load_images(folder_path)
    \/ current_image_index + 1 < Len(image_files) /\ load_next_image

\* C8 as stated: after every call of load_image the finalized polygons and
\* the in-progress points are empty.
C8_EveryLoadResets ==
    [][CallsLoadImage
        => polygons' = << >> /\ current_polygon' = << >>]_vars

\* C8 amended: after every call of load_image that decodes and displays
\* the image (setImage runs) the finalized polygons and the in-progress
\* points are empty, whatever they held before.
C8_ShownLoadResets ==
    [][(CallsLoadImage /\ LoadOutcome(current_image_path') = "shown")
        => polygons' = << >> /\ current_polygon' = << >>]_vars

\* C8 witness: with a polygon finalized and points in progress, next-image
\* is about to load a file that decodes.
C8_Witness ==
    /\ polygons # << >>
    /\ current_polygon # << >>
    /\ btn_next_enabled
    /\ current_image_index + 1 < Len(image_files)
    /\ LoadOutcome(image_files[current_image_index + 2]) = "shown"
    /\ ENABLED load_next_image

\* C9: whenever save_mask writes a mask under the name derived from the
\* current image path, every polygon filled into it was finalized after
\* the load that made that path the current one.
C9_NoLeakIntoExport ==
    written # << >>
    => /\ written[1].name = MaskFilename(current_image_path)
       /\ written[1].filled = polygons
       /\ \A i \in 1 .. Len(polygons) : sincePathSet[i]

\* C10: a load that fails to decode leaves the current image path, the
\* current image index, the displayed image, the finalized polygons and
\* the in-progress points as they were.
C10_FailedLoadKeepsState ==
    [][(CallsLoadImage /\ msgbox' = "warning:decode")
        => /\ current_image_path' = current_image_path
           /\ current_image_index' = current_image_index
           /\ pixmap' = pixmap
           /\ polygons' = polygons
           /\ current_polygon' = current_polygon]_vars

----------------------------------------------------------------------------
\* The loads of the folder "sizes": load-folder, next-image and mouse
\* moves over the image shown.
NextSizes ==
    \/ load_images("sizes")
    \/ load_next_image
    \/ \E pos \in Positions : mouseMoveEvent(pos[1], pos[2])

SpecSizes == Init /\ [][NextSizes]_vars

\* value is an integer nearest to n * num / den.
IsNearest(value, n, num, den) ==
    LET diff == value * den - n * num
    IN  2 * (IF diff < 0 THEN 0 - diff ELSE diff) <= den

\* <<width, height>> is the rounded product of size and the scale
\* s = min(screen_width / size[1], screen_height / size[2], 1).
IsRoundedScaled(width, height, size) ==
    IF size[1] <= screen_width /\ size[2] <= screen_height
    THEN <<width, height>> = size
    ELSE IF screen_width * size[2] <= screen_height * size[1]
         THEN /\ IsNearest(width, size[1], screen_width, size[1])
              /\ IsNearest(height, size[2], screen_width, size[1])
         ELSE /\ IsNearest(width, size[1], screen_height, size[2])
              /\ IsNearest(height, size[2], screen_height, size[2])

\* C15: the display size computed by load_image for an image of w x h
\* pixels is round((w, h) * s) with s = min(1920 / w, 1080 / h, 1.0); it
\* exceeds neither the original size nor 1920 x 1080, and it is
\* (1440, 1080) for 4000 x 3000.
C15_DisplaySizeIsRounded ==
    [][((load_images("sizes")
            \/ (current_image_index + 1 < Len(image_files) /\ load_next_image))
        /\ LoadOutcome(current_image_path') = "shown")
        => LET size == Imread(current_image_path')
           IN  /\ IsRoundedScaled(pixmap'[1], pixmap'[2], size)
               /\ pixmap'[1] <= size[1] /\ pixmap'[1] <= screen_width
               /\ pixmap'[2] <= size[2] /\ pixmap'[2] <= screen_height
               /\ size = <<4000, 3000>> => pixmap' = <<1440, 1080>>]_vars

----------------------------------------------------------------------------
\* C11: save_mask writes a file only when there is a current image and
\* the finalized polygon list is non-empty; with no current image, no
\* displayed image or no finalized polygon it reports an error and writes
\* no file.
C11_SaveMaskWritesOrReports ==
    [][save_mask
        => IF current_image_path = None \/ pixmap = None \/ polygons = << >>
           THEN /\ written' = << >>
                /\ msgbox' \in {"warning:no_image", "warning:no_polygons",
                                "warning:no_pixmap"}
           ELSE /\ Len(written') = 1
                /\ msgbox' = "info:saved"]_vars

\* C11 witness: save_mask has refused to write while points were in
\* progress but no polygon was finalized.
C11_Witness ==
    /\ msgbox = "warning:no_polygons"
    /\ written = << >>
    /\ current_polygon # << >>

\* C14: every mask save_mask writes has the width and the height of the
\* displayed image, and each of its pixels is 0 or 255.
C14_MaskHasDisplaySize ==
    written # << >>
    => /\ pixmap # None
       /\ Len(written[1].mask) = pixmap[2]
       /\ \A row \in 1 .. Len(written[1].mask) :
              /\ Len(written[1].mask[row]) = pixmap[1]
              /\ \A col \in 1 .. Len(written[1].mask[row]) :
                     written[1].mask[row][col] \in {0, 255}

\* C14 witness: a mask of the 2 x 1 image has been written.
C14_Witness == written # << >> /\ pixmap = <<2, 1>>

\* C16: a finalized polygon is immutable.  No step changes the points of
\* a polygon that stays in the list, and the list gets shorter only by
\* undo_last_polygon or by a load.
C16_FinalizedPolygonImmutable ==
    [][/\ \A i \in 1 .. Len(polygons) :
              i <= Len(polygons') => polygons'[i] = polygons[i]
       /\ Len(polygons') < Len(polygons)
              => undo_last_polygon \/ CallsLoadImage]_vars

\* C16 witness: a polygon has been finalized, a mask of it has been saved
\* and points are in progress next to it.
C16_Witness ==
    /\ Len(polygons) = 1
    /\ current_polygon # << >>
    /\ msgbox = "info:saved"

\* The hover position is unset or inside the displayed image.
HoverInside ==
    mouse_position # None
    => pixmap # None /\ InPixmap(mouse_position[1], mouse_position[2])

\* C17: the hover position is changed only by a mouse move inside the
\* displayed image and by a load, which unsets it; it is always unset or
\* inside [0, width) x [0, height) of the displayed image; a mouse move
\* changes neither the in-progress points nor the finalized polygons.
C17_HoverPosition ==
    /\ []HoverInside
    /\ [][/\ mouse_position' # mouse_position
              => \/ \E pos \in Positions :
                        /\ InPixmap(pos[1], pos[2])
                        /\ mouseMoveEvent(pos[1], pos[2])
                        /\ mouse_position' = pos
                 \/ CallsLoadImage /\ mouse_position' = None
          /\ (\E pos \in Positions : mouseMoveEvent(pos[1], pos[2]))
              => UNCHANGED <<current_polygon, polygons>>]_vars

\* C17 witness: the hover position is set on the second pixel of the
\* 2 x 1 image while points are in progress and a polygon is finalized.
C17_Witness ==
    /\ mouse_position = <<1, 0>>
    /\ current_polygon # << >>
    /\ polygons # << >>

\* C18: save_mask, writing or not, leaves the editor and the navigation
\* state unchanged, and a pixel of the written mask is 255 exactly when a
\* finalized polygon covers it: the in-progress points add nothing.
C18_SaveMaskFrame ==
    [][save_mask
        => /\ UNCHANGED <<editor, navigation>>
           /\ written' # << >>
              => \A row \in 1 .. pixmap[2], col \in 1 .. pixmap[1] :
                     written'[1].mask[row][col] = 255
                     <=> \E i \in 1 .. Len(polygons) :
                            Covered(polygons[i], col - 1, row - 1)]_vars

\* C18 witness: a mask of the 2 x 1 image has been written with an
\* in-progress point on a pixel that no finalized polygon covers.
C18_Witness ==
    /\ written # << >>
    /\ pixmap = <<2, 1>>
    /\ current_polygon # << >>
    /\ written[1].mask[1][2] = 0
    /\ current_polygon[1] = <<1, 0>>

\* With a non-empty file list the index is inside it and the current
\* path is the file at the index.
IndexInList ==
    image_files # << >>
    => /\ 0 <= current_image_index
       /\ current_image_index < Len(image_files)
       /\ current_image_path = image_files[current_image_index + 1]

\* C19: with a non-empty file list, 0 <= current_image_index <
\* len(image_files) and current_image_path is image_files at that index;
\* next-image on the last image changes neither index, path, polygons
\* nor in-progress points; the index decreases only in a load-folder
\* command.
C19_IndexAndPath ==
    /\ []IndexInList
    /\ [][/\ (load_next_image
                 /\ current_image_index + 1 >= Len(image_files))
              => UNCHANGED <<current_image_index, current_image_path,
                             polygons, current_polygon>>
          /\ current_image_index' < current_image_index
              => \E folder_path \in Folders : load_images(folder_path)]_vars

\* C19 witness: next-image has reported the end of the list on its last
\* image while a polygon was finalized and points were in progress.
C19_Witness ==
    /\ image_files # << >>
    /\ current_image_index = Len(image_files) - 1
    /\ msgbox = "info:done"
    /\ polygons # << >>
    /\ current_polygon # << >>

----------------------------------------------------------------------------
\* Masks of the 10 x 10 image of the folder "grid".

\* The most polygons finalized on the image.
MaxPolygons == 3

\* The polygons drawn on the image: the rectangle [0,4] x [0,4], a
\* rectangle inside it, a triangle overlapping it and a rectangle away
\* from all of them.
Drawn ==
    { << <<0, 0>>, <<4, 0>>, <<4, 4>>, <<0, 4>> >>,
      << <<1, 1>>, <<3, 1>>, <<3, 3>>, <<1, 3>> >>,
      << <<3, 3>>, <<7, 3>>, <<7, 7>> >>,
      << <<6, 0>>, <<9, 0>>, <<9, 2>>, <<6, 2>> >> }

\* The lists of at most n polygons of Drawn.
RECURSIVE DrawnLists(_)
DrawnLists(n) ==
    IF n = 0 THEN { << >> }
    ELSE DrawnLists(n - 1)
         \cup {Append(list, p) : list \in DrawnLists(n - 1), p \in Drawn}

\* The states after load-folder on "grid" and the clicks and finalize
\* commands that draw a list of polygons.
InitGrid ==
    /\ image_files = Listing("grid")
    /\ current_image_index = 0
    /\ current_image_path = Listing("grid")[1]
    /\ pixmap = ScaledSize(Imread(Listing("grid")[1])[1],
                           Imread(Listing("grid")[1])[2])
    /\ polygons \in DrawnLists(MaxPolygons)
    /\ current_polygon = << >>
    /\ mouse_position = None
    /\ btn_next_enabled = TRUE
    /\ btn_save_mask_enabled = TRUE
    /\ msgbox = ""
    /\ written = << >>
    /\ sincePathSet = [i \in 1 .. Len(polygons) |-> TRUE]

NextGrid ==
    \/ save_mask
    \/ undo_last_polygon

SpecGrid == InitGrid /\ [][NextGrid]_vars

\* C12: the pixels exactly on a polygon's edges are filled.  The single
\* rectangle [(0,0),(4,0),(4,4),(0,4)] in a 10 x 10 mask sets exactly the
\* 25 pixels with 0 <= x <= 4 and 0 <= y <= 4 to 255, every other to 0.
C12_RectangleWithEdges ==
    [][(save_mask /\ pixmap = <<10, 10>>
        /\ polygons = << << <<0, 0>>, <<4, 0>>, <<4, 4>>, <<0, 4>> >> >>)
        => /\ Len(written') = 1
           /\ \A x \in 0 .. 9, y \in 0 .. 9 :
                  written'[1].mask[y + 1][x + 1] =
                      IF x <= 4 /\ y <= 4 THEN 255 ELSE 0]_vars

\* C12 witness: the mask of the single rectangle has been written.
C12_Witness ==
    /\ written # << >>
    /\ pixmap = <<10, 10>>
    /\ polygons = << << <<0, 0>>, <<4, 0>>, <<4, 4>>, <<0, 4>> >> >>

\* The list with its polygons in the order perm.
Reordered(polys, perm) == [i \in 1 .. Len(polys) |-> polys[perm[i]]]

\* The pixels set in the mask a or in the mask b.
MaskOr(a, b) ==
    [row \in 1 .. Len(a) |-> [col \in 1 .. Len(a[row]) |->
        IF a[row][col] = 255 \/ b[row][col] = 255 THEN 255 ELSE 0]]

\* The union of the masks of the polygons, each filled alone into zero.
RECURSIVE UnionOfMasks(_, _)
UnionOfMasks(zero, polys) ==
    IF polys = << >> THEN zero
    ELSE MaskOr(UnionOfMasks(zero, SubSeq(polys, 1, Len(polys) - 1)),
                FillPoly(zero, polys[Len(polys)], 255))

\* C13: the mask of a polygon list is the union of the masks of its
\* polygons filled one at a time; a pixel set by one polygon is not
\* turned back to 0 by a later one, overlapping and nested ones included;
\* the mask does not depend on the order of the list.
C13_MaskIsUnion ==
    [][(save_mask /\ written' # << >>)
        => LET zero == ZeroMask(pixmap[1], pixmap[2])
           IN  /\ written'[1].mask = UnionOfMasks(zero, polygons)
               /\ \A k \in 1 .. Len(polygons) :
                      MaskOr(FillAll(zero, SubSeq(polygons, 1, k - 1)),
                             FillAll(zero, SubSeq(polygons, 1, k)))
                          = FillAll(zero, SubSeq(polygons, 1, k))
               /\ \A perm \in Permutations(1 .. Len(polygons)) :
                      FillAll(zero, Reordered(polygons, perm))
                          = written'[1].mask]_vars

\* C13 witness: the mask of the rectangle, the rectangle nested in it and
\* the triangle overlapping it has been written.
C13_Witness ==
    /\ written # << >>
    /\ polygons = << << <<0, 0>>, <<4, 0>>, <<4, 4>>, <<0, 4>> >>,
                     << <<1, 1>>, <<3, 1>>, <<3, 3>>, <<1, 3>> >>,
                     << <<3, 3>>, <<7, 3>>, <<7, 7>> >> >>
====
